---- MODULE Spec2Model ----
(***************************************************************************)
(* codex-wrapped: terminal image display (detectTerminal,                  *)
(* displayKittyProtocol, displayITerm2Protocol, displayInTerminal) and the *)
(* usage statistics of calculateStats.                                     *)
(*                                                                         *)
(* Strings written to process.stdout are records of their parts; a base64  *)
(* character is its sextet value 0..63, and 64 stands for the pad "=".     *)
(***************************************************************************)
EXTENDS Integers, Sequences, FiniteSets, TLC

VARIABLES env, pngBuffer, terminal, base64Data, i, stdout, pc, result, failure

VARIABLES cachedData, events, idx, totals, modelUsageTotals, modelStats,
          providerCounts, topModels, topProviders, spc

renderVars == <<env, pngBuffer, terminal, base64Data, i, stdout, pc, result, failure>>

statsVars == <<cachedData, events, idx, totals, modelUsageTotals, modelStats,
               providerCounts, topModels, topProviders, spc>>

VARIABLES dailyActivity, year, now, zone, weekdayCounts, streaks, mostActiveDay,
          weekdayActivity, apc

VARIABLES costIdx, totalCost, costLog, cpc

VARIABLES fetchAttempted, fetchInFlight, flight, requests, callers

activityVars == <<dailyActivity, year, now, zone, weekdayCounts, streaks, mostActiveDay,
                  weekdayActivity, apc>>

costVars == <<costIdx, totalCost, costLog, cpc>>

fetchVars == <<fetchAttempted, fetchInFlight, flight, requests, callers>>

vars == <<renderVars, statsVars, activityVars, costVars, fetchVars>>

\* what displayInTerminal leaves alone
exceptRender == <<statsVars, activityVars, costVars, fetchVars>>

\* what the aggregation and the rankings leave alone
exceptStats == <<renderVars, activityVars, costVars, fetchVars>>

(***************************************************************************)
(* Bounds of the model.                                                    *)
(***************************************************************************)
\* image payloads fill up to MaxChunks whole base64 chunks, plus one byte
MaxChunks == 2

Min(a, b) == IF a < b THEN a ELSE b

Max(a, b) == IF a > b THEN a ELSE b

(***************************************************************************)
(* process.env: a function from the names that are set to their values.    *)
(***************************************************************************)
Unset == "<unset>"

TermValues == {Unset, "xterm-ghostty", "xterm-kitty", "xterm-256color"}

TermProgramValues ==
    {Unset, "WezTerm", "iTerm.app", "konsole", "vscode", "WarpTerminal", "Apple_Terminal"}

KittyWindowIdValues == {Unset, "", "1"}

KonsoleVersionValues == {Unset, "", "230804"}

EnvOf(t, tp, k, ko) ==
    LET given == [TERM |-> t, TERM_PROGRAM |-> tp, KITTY_WINDOW_ID |-> k, KONSOLE_VERSION |-> ko]
    IN  [n \in {m \in DOMAIN given : given[m] # Unset} |-> given[n]]

AllEnvs ==
    {EnvOf(t, tp, k, ko) : t \in TermValues, tp \in TermProgramValues,
                           k \in KittyWindowIdValues, ko \in KonsoleVersionValues}

\* env.NAME === value
EnvIs(e, name, value) == name \in DOMAIN e /\ e[name] = value

\* truthiness of env.NAME: set and not the empty string
EnvTruthy(e, name) == name \in DOMAIN e /\ e[name] # ""

TerminalInfo(type, kitty, iterm2) ==
    [type |-> type, supportsKittyProtocol |-> kitty, supportsITerm2Protocol |-> iterm2]

\* the same tests, the last match winning
detectTerminalLastWins(e) ==
    IF EnvIs(e, "TERM_PROGRAM", "WarpTerminal") THEN TerminalInfo("warp", TRUE, FALSE)
    ELSE IF EnvIs(e, "TERM_PROGRAM", "vscode") THEN TerminalInfo("vscode", FALSE, TRUE)
    ELSE IF EnvIs(e, "TERM_PROGRAM", "konsole") \/ EnvTruthy(e, "KONSOLE_VERSION")
         THEN TerminalInfo("konsole", TRUE, FALSE)
    ELSE IF EnvIs(e, "TERM_PROGRAM", "iTerm.app") THEN TerminalInfo("iterm", FALSE, TRUE)
    ELSE IF EnvIs(e, "TERM_PROGRAM", "WezTerm") THEN TerminalInfo("wezterm", TRUE, TRUE)
    ELSE IF EnvIs(e, "TERM", "xterm-kitty") \/ EnvTruthy(e, "KITTY_WINDOW_ID")
         THEN TerminalInfo("kitty", TRUE, FALSE)
    ELSE IF EnvIs(e, "TERM", "xterm-ghostty") THEN TerminalInfo("ghostty", TRUE, FALSE)
    ELSE TerminalInfo("standard", FALSE, FALSE)

detectTerminal(e) ==
    IF EnvIs(e, "TERM", "xterm-ghostty") THEN TerminalInfo("ghostty", TRUE, FALSE)
    ELSE IF EnvIs(e, "TERM", "xterm-kitty") \/ EnvTruthy(e, "KITTY_WINDOW_ID")
         THEN TerminalInfo("kitty", TRUE, FALSE)
    ELSE IF EnvIs(e, "TERM_PROGRAM", "WezTerm") THEN TerminalInfo("wezterm", TRUE, TRUE)
    ELSE IF EnvIs(e, "TERM_PROGRAM", "iTerm.app") THEN TerminalInfo("iterm", FALSE, TRUE)
    ELSE IF EnvIs(e, "TERM_PROGRAM", "konsole") \/ EnvTruthy(e, "KONSOLE_VERSION")
         THEN TerminalInfo("konsole", TRUE, FALSE)
    ELSE IF EnvIs(e, "TERM_PROGRAM", "vscode") THEN TerminalInfo("vscode", FALSE, TRUE)
    ELSE IF EnvIs(e, "TERM_PROGRAM", "WarpTerminal") THEN TerminalInfo("warp", TRUE, FALSE)
    ELSE TerminalInfo("standard", FALSE, FALSE)

(***************************************************************************)
(* Buffer.toString("base64"): three bytes give four sextets; a last group  *)
(* of one or two bytes is padded with "=" (64).                            *)
(***************************************************************************)
Base64Length(n) == 4 * ((n + 2) \div 3)

Base64Char(bytes, j) ==
    LET n  == Len(bytes)
        g  == (j - 1) \div 4
        p  == (j - 1) % 4
        b0 == bytes[3 * g + 1]
        b1 == IF 3 * g + 2 <= n THEN bytes[3 * g + 2] ELSE 0
        b2 == IF 3 * g + 3 <= n THEN bytes[3 * g + 3] ELSE 0
    IN  CASE p = 0 -> b0 \div 4
          [] p = 1 -> (b0 % 4) * 16 + (b1 \div 16)
          [] p = 2 -> IF 3 * g + 2 > n THEN 64 ELSE (b1 % 16) * 4 + (b2 \div 64)
          [] OTHER -> IF 3 * g + 3 > n THEN 64 ELSE b2 % 64

toBase64(bytes) == [j \in 1..Base64Length(Len(bytes)) |-> Base64Char(bytes, j)]

\* String.prototype.slice(from, to) for 0 <= from <= to
slice(s, from, to) == SubSeq(s, Min(from, Len(s)) + 1, Min(to, Len(s)))

chunkSize == 4096

(***************************************************************************)
(* The image payloads: every length up to 3 bytes, and the lengths around  *)
(* each whole number of chunks (3072 bytes encode to 4096 characters).     *)
(***************************************************************************)
BytesPerChunk == (chunkSize \div 4) * 3

PayloadLengths ==
    (0..3) \cup {k * BytesPerChunk + d : k \in 1..MaxChunks, d \in {-1, 0, 1}}

Payload(len, seed) == [k \in 1..len |-> (seed + 37 * (k - 1)) % 256]

\* two contents per length
Seeds == {0, 201}

Payloads == {Payload(len, seed) : len \in PayloadLengths, seed \in Seeds}

SmallPayloads == {p \in Payloads : Len(p) <= 3}

\* one environment per terminal family, and the plain one
FamilyEnvs ==
    {e \in AllEnvs : Cardinality(DOMAIN e) <= 1 /\ \A n \in DOMAIN e : e[n] # ""}

RenderInputs == (AllEnvs \X SmallPayloads) \cup (FamilyEnvs \X Payloads)

NoTerminal == TerminalInfo("none", FALSE, FALSE)

(***************************************************************************)
(* The strings written to process.stdout.                                  *)
(***************************************************************************)
\* `\x1b_G<control>;<chunk>\x1b\\`
KittyFrame(control, chunk) ==
    [kind |-> "APC_G", control |-> control, payload |-> chunk, terminator |-> "ESC\\"]

firstControl(last) == [a |-> "T", f |-> 100, m |-> IF last THEN 0 ELSE 1]

nextControl(last) == [m |-> IF last THEN 0 ELSE 1]

\* `\x1b]1337;File=name=<filename>;size=<size>;inline=1:<data>\x07\n`
ITerm2Frame(name, size, data) ==
    [kind |-> "OSC_1337", name |-> name, size |-> size, inline |-> 1,
     payload |-> data, terminator |-> "BEL", trailer |-> "\n"]

Newline == [kind |-> "text", text |-> "\n"]

\* Buffer.from("codex-wrapped-noyrlimit.png").toString("base64")
filename == "Y29kZXgtd3JhcHBlZC1ub3lybGltaXQucG5n"

\* the catch clause of displayInTerminal
CaughtRethrows == "rejected"

Caught == "false"

(***************************************************************************)
(* displayKittyProtocol: the chunk loop.                                   *)
(***************************************************************************)
\* the loop condition, written as a do-while
loopContinuesDoWhile(at, data) == at = 0 \/ at < Len(data)

loopContinues(at, data) == at < Len(data)

\* the comparison of the last chunk, off by one
isLastStrict(at, data) == at + chunkSize > Len(data)

isLast(at, data) == at + chunkSize >= Len(data)

\* a slice that is one character short
chunkAtShort(at, data) == slice(data, at, at + chunkSize - 1)

chunkAt(at, data) == slice(data, at, at + chunkSize)

kittyWrite(at, data) ==
    IF at = 0
    THEN KittyFrame(firstControl(isLast(at, data)), chunkAt(at, data))
    ELSE KittyFrame(nextControl(isLast(at, data)), chunkAt(at, data))

(***************************************************************************)
(* displayInTerminal: which protocol a capability selects.                 *)
(***************************************************************************)
\* the iTerm2 protocol tried first
selectsKittySecond(t) == t.supportsKittyProtocol /\ ~t.supportsITerm2Protocol

selectsKitty(t) == t.supportsKittyProtocol

\* the iTerm2 branch taken without looking at its flag
selectsITerm2Unchecked(t) == ~selectsKitty(t)

selectsITerm2(t) == ~selectsKitty(t) /\ t.supportsITerm2Protocol

sizeField(buffer) == Len(buffer)

StatsIdle ==
    /\ cachedData = [models |-> <<>>, providers |-> <<>>]
    /\ events = <<>>
    /\ idx = 0
    /\ totals = <<>>
    /\ modelUsageTotals = <<>>
    /\ modelStats = <<>>
    /\ providerCounts = <<>>
    /\ topModels = <<>>
    /\ topProviders = <<>>
    /\ spc = "idle"

ActivityIdle ==
    /\ dailyActivity = <<>>
    /\ year = 0
    /\ now = 0
    /\ zone = "idle"
    /\ weekdayCounts = <<>>
    /\ streaks = <<>>
    /\ mostActiveDay = <<>>
    /\ weekdayActivity = <<>>
    /\ apc = "idle"

CostIdle ==
    /\ costIdx = 0
    /\ totalCost = 0
    /\ costLog = <<>>
    /\ cpc = "idle"

FetchIdle ==
    /\ fetchAttempted = FALSE
    /\ fetchInFlight = "null"
    /\ flight = [stage |-> "none", outcome |-> "none", promise |-> "none", result |-> "none"]
    /\ requests = 0
    /\ callers = <<>>

RenderInit ==
    /\ \E input \in RenderInputs :
          /\ env = input[1]
          /\ pngBuffer = input[2]
    /\ terminal = NoTerminal
    /\ base64Data = <<>>
    /\ i = 0
    /\ stdout = <<>>
    /\ pc = "start"
    /\ result = "pending"
    /\ failure = "none"

\* line 98: const terminal = detectTerminal()
Detect ==
    /\ pc = "start"
    /\ terminal' = detectTerminal(env)
    /\ pc' = "try"
    /\ UNCHANGED <<exceptRender, env, pngBuffer, base64Data, i, stdout, result, failure>>

\* line 65: const base64Data = pngBuffer.toString("base64")
KittyEncode ==
    /\ pc = "try"
    /\ selectsKitty(terminal)
    /\ base64Data' = toBase64(pngBuffer)
    /\ i' = 0
    /\ pc' = "kittyLoop"
    /\ UNCHANGED <<exceptRender, env, pngBuffer, terminal, stdout, result, failure>>

\* lines 68-79: one iteration of the chunk loop
KittyWriteChunk ==
    /\ pc = "kittyLoop"
    /\ loopContinues(i, base64Data)
    /\ stdout' = Append(stdout, kittyWrite(i, base64Data))
    /\ i' = i + chunkSize
    /\ UNCHANGED <<exceptRender, env, pngBuffer, terminal, base64Data, pc, result, failure>>

\* line 82, and the return true of line 103
KittyNewline ==
    /\ pc = "kittyLoop"
    /\ ~loopContinues(i, base64Data)
    /\ stdout' = Append(stdout, Newline)
    /\ result' = "true"
    /\ pc' = "done"
    /\ UNCHANGED <<exceptRender, env, pngBuffer, terminal, base64Data, i, failure>>

\* line 90: const base64Data = pngBuffer.toString("base64")
ITerm2Encode ==
    /\ pc = "try"
    /\ selectsITerm2(terminal)
    /\ base64Data' = toBase64(pngBuffer)
    /\ pc' = "iterm2Write"
    /\ UNCHANGED <<exceptRender, env, pngBuffer, terminal, i, stdout, result, failure>>

\* lines 91-94, and the return true of line 108
ITerm2Write ==
    /\ pc = "iterm2Write"
    /\ stdout' = Append(stdout, ITerm2Frame(filename, sizeField(pngBuffer), base64Data))
    /\ result' = "true"
    /\ pc' = "done"
    /\ UNCHANGED <<exceptRender, env, pngBuffer, terminal, base64Data, i, failure>>

\* line 112: no native image support
Unsupported ==
    /\ pc = "try"
    /\ ~selectsKitty(terminal)
    /\ ~selectsITerm2(terminal)
    /\ result' = "false"
    /\ pc' = "done"
    /\ UNCHANGED <<exceptRender, env, pngBuffer, terminal, base64Data, i, stdout, failure>>

\* toString("base64") throws inside the try block
EncodeThrows ==
    /\ pc = "try"
    /\ selectsKitty(terminal) \/ selectsITerm2(terminal)
    /\ failure' = "encode"
    /\ result' = Caught
    /\ pc' = "done"
    /\ UNCHANGED <<exceptRender, env, pngBuffer, terminal, base64Data, i, stdout>>

\* process.stdout.write throws inside the try block: nothing is appended
WriteThrows ==
    /\ pc \in {"kittyLoop", "iterm2Write"}
    /\ failure' = "write"
    /\ result' = Caught
    /\ pc' = "done"
    /\ UNCHANGED <<exceptRender, env, pngBuffer, terminal, base64Data, i, stdout>>

Next ==
    \/ Detect
    \/ KittyEncode
    \/ KittyWriteChunk
    \/ KittyNewline
    \/ ITerm2Encode
    \/ ITerm2Write
    \/ Unsupported
    \/ EncodeThrows
    \/ WriteThrows

Init == RenderInit /\ StatsIdle /\ ActivityIdle /\ CostIdle /\ FetchIdle

Spec == Init /\ [][Next]_vars

(***************************************************************************)
(* Claims about the terminal renderer.                                     *)
(***************************************************************************)
RECURSIVE Concat(_)
Concat(frames) ==
    IF frames = <<>> THEN <<>> ELSE frames[1].payload \o Concat(Tail(frames))

IsKittyFrame(w) == w.kind = "APC_G"

IsITerm2Frame(w) == w.kind = "OSC_1337"

\* the Protocol A frames written so far, in write order
KittyFrames == SelectSeq(stdout, IsKittyFrame)

InKitty == pc \in {"kittyLoop", "done"} /\ terminal.supportsKittyProtocol /\ failure # "encode"

KittyCompleted == InKitty /\ result = "true"

\* C1: in Protocol A the frames are written in ascending chunk order: frame k
\* holds the k-th 4096-character piece of the base64 text, the first frame
\* carries a=T,f=100 and the more-data flag, every later frame carries the flag
\* alone, the flag is 1 on every frame but the last and 0 on the last, and the
\* chunks in write order concatenate to the base64 encoding of the payload,
\* followed on the stream by the newline.
C1_FramesInOrder ==
    InKitty =>
        LET F    == KittyFrames
            text == base64Data
        IN  /\ \A k \in 1..Len(F) :
                  /\ F[k].payload = SubSeq(text, (k - 1) * 4096 + 1, Min(k * 4096, Len(text)))
                  /\ IF k = 1
                     THEN DOMAIN F[k].control = {"a", "f", "m"}
                          /\ F[k].control.a = "T" /\ F[k].control.f = 100
                     ELSE DOMAIN F[k].control = {"m"}
                  /\ F[k].control.m \in {0, 1}
                  /\ k < Len(F) => F[k].control.m = 1
            /\ Concat(F) = SubSeq(text, 1, Min(i, Len(text)))
            /\ result = "true" =>
                  /\ Concat(F) = toBase64(pngBuffer)
                  /\ stdout = F \o <<Newline>>
                  /\ Len(F) > 0 => F[Len(F)].control.m = 0

C1_Witness ==
    /\ KittyCompleted
    /\ Len(KittyFrames) = 3
    /\ Len(KittyFrames[3].payload) < 4096
    /\ Len(KittyFrames[1].payload) = 4096

\* C2: Protocol A writes ceil(base64Length / 4096) frames, and every frame
\* except possibly the last carries exactly 4096 base64 characters.
C2_ChunkCount ==
    KittyCompleted =>
        LET F == KittyFrames
            L == Len(base64Data)
        IN  /\ L = Base64Length(Len(pngBuffer))
            /\ Len(F) = (L + 4095) \div 4096
            /\ \A k \in 1..(Len(F) - 1) : Len(F[k].payload) = 4096
            /\ Len(F) > 0 => Len(F[Len(F)].payload) \in 1..4096

C2_Witness ==
    /\ KittyCompleted
    /\ Len(base64Data) = 2 * 4096
    /\ Len(KittyFrames) = 2

\* C3 as claimed: a zero-length payload gives exactly one Protocol A frame,
\* with m=0 and an empty chunk.
C3_EmptyPayloadOneFrame ==
    (KittyCompleted /\ Len(pngBuffer) = 0) =>
        /\ Len(KittyFrames) = 1
        /\ KittyFrames[1].control.m = 0
        /\ KittyFrames[1].payload = <<>>

\* C3 as amended: a zero-length payload gives no Protocol A frame at all:
\* the newline is the only thing written, and the call returns true.
C3_EmptyPayloadNoFrame ==
    (InKitty /\ Len(pngBuffer) = 0) =>
        /\ KittyFrames = <<>>
        /\ pc = "done" /\ failure = "none" => stdout = <<Newline>> /\ result = "true"

C3_Witness ==
    /\ KittyCompleted
    /\ Len(pngBuffer) = 0
    /\ stdout = <<Newline>>

\* C4: with both protocol flags false nothing is written and the result is
\* false, whatever the payload.
C4_UnsupportedWritesNothing ==
    (pc # "start" /\ ~terminal.supportsKittyProtocol /\ ~terminal.supportsITerm2Protocol) =>
        /\ stdout = <<>>
        /\ result # "true"
        /\ pc = "done" => result = "false"

C4_Witness ==
    /\ pc = "done"
    /\ terminal = TerminalInfo("standard", FALSE, FALSE)
    /\ Len(pngBuffer) > 3
    /\ result = "false"
    /\ stdout = <<>>

\* C5: one protocol per call: Protocol A whenever supportsKittyProtocol is
\* true, Protocol B only when it is false and supportsITerm2Protocol is true;
\* a completed Protocol B call has written exactly one OSC 1337 frame whose
\* size field is the raw byte length of the image, ended by BEL and a newline.
C5_OneProtocol ==
    pc # "start" =>
        /\ terminal.supportsKittyProtocol =>
              /\ \A k \in 1..Len(stdout) : ~IsITerm2Frame(stdout[k])
              /\ result = "true" => stdout = KittyFrames \o <<Newline>>
        /\ (~terminal.supportsKittyProtocol /\ terminal.supportsITerm2Protocol) =>
              /\ \A k \in 1..Len(stdout) : IsITerm2Frame(stdout[k])
              /\ result = "true" =>
                    /\ Len(stdout) = 1
                    /\ stdout[1].size = Len(pngBuffer)
                    /\ stdout[1].name = filename
                    /\ stdout[1].inline = 1
                    /\ stdout[1].payload = toBase64(pngBuffer)
                    /\ stdout[1].terminator = "BEL"
                    /\ stdout[1].trailer = "\n"
        /\ (~terminal.supportsKittyProtocol /\ ~terminal.supportsITerm2Protocol) =>
              stdout = <<>>

C5_Witness ==
    /\ result = "true"
    /\ terminal.type \in {"iterm", "vscode"}
    /\ Len(stdout) = 1
    /\ stdout[1].size = 3073
    /\ Len(stdout[1].payload) = 4100

\* C6: displayInTerminal never rejects: a failure of the encoding or of a write,
\* at any point of either protocol, is caught and the result is false.
C6_NeverThrows ==
    /\ result \in {"pending", "true", "false"}
    /\ pc = "done" => result \in {"true", "false"}
    /\ failure # "none" => pc = "done" /\ result = "false"

C6_Witness ==
    /\ failure = "write"
    /\ result = "false"
    /\ Len(stdout) = 2

\* C7 as claimed: whenever displayInTerminal returns false, no protocol frame
\* has been written to the output stream.
C7_FailsClosed == result = "false" => stdout = <<>>

\* C8: detectTerminal returns the family of the first matching rule in the
\* order ghostty, kitty, wezterm, iterm, konsole, vscode, warp, with that
\* family's fixed protocol flags, and "standard" with both flags false when no
\* rule matches.
Families ==
    << TerminalInfo("ghostty", TRUE, FALSE), TerminalInfo("kitty", TRUE, FALSE),
       TerminalInfo("wezterm", TRUE, TRUE), TerminalInfo("iterm", FALSE, TRUE),
       TerminalInfo("konsole", TRUE, FALSE), TerminalInfo("vscode", FALSE, TRUE),
       TerminalInfo("warp", TRUE, FALSE) >>

RuleMatches(k, e) ==
    CASE k = 1 -> EnvIs(e, "TERM", "xterm-ghostty")
      [] k = 2 -> EnvIs(e, "TERM", "xterm-kitty") \/ EnvTruthy(e, "KITTY_WINDOW_ID")
      [] k = 3 -> EnvIs(e, "TERM_PROGRAM", "WezTerm")
      [] k = 4 -> EnvIs(e, "TERM_PROGRAM", "iTerm.app")
      [] k = 5 -> EnvIs(e, "TERM_PROGRAM", "konsole") \/ EnvTruthy(e, "KONSOLE_VERSION")
      [] k = 6 -> EnvIs(e, "TERM_PROGRAM", "vscode")
      [] OTHER -> EnvIs(e, "TERM_PROGRAM", "WarpTerminal")

MatchingRules(e) == {k \in 1..7 : RuleMatches(k, e)}

C8_FirstMatchWins ==
    pc # "start" =>
        LET M == MatchingRules(env)
        IN  /\ M = {} => terminal = TerminalInfo("standard", FALSE, FALSE)
            /\ M # {} => \E k \in M : (\A j \in M : k <= j) /\ terminal = Families[k]
            /\ (terminal.supportsKittyProtocol /\ terminal.supportsITerm2Protocol)
                   <=> terminal.type = "wezterm"

C8_Witness ==
    /\ pc = "done"
    /\ MatchingRules(env) = {2, 3, 5}
    /\ terminal.type = "kitty"

(***************************************************************************)
(* calculateStats: the aggregation loop and the rankings.                  *)
(*                                                                         *)
(* A Map is the sequence of its entries in insertion order.  A percentage  *)
(* is the exact quotient num / den of (count / denominator) * 100.         *)
(* Display names take no part in the numbers and are left out of the       *)
(* entries.                                                                *)
(***************************************************************************)
\* the longest sequence of usage events
MaxEvents == 3

ModelIds == {"gpt-5", "claude-x", "gemini-y"}

UsageEvent(model, input, cached, output, reasoning, total) ==
    [model |-> model, inputTokens |-> input, cachedInputTokens |-> cached,
     outputTokens |-> output, reasoningOutputTokens |-> reasoning, totalTokens |-> total]

\* a populated total, an unset total, reasoning tokens alone, and no tokens
UsageEvents ==
    {UsageEvent(m, 1, 0, 1, 0, 2) : m \in ModelIds}
        \cup {UsageEvent(m, 2, 1, 1, 1, 0) : m \in ModelIds}
        \cup {UsageEvent(m, 0, 0, 0, 2, 0) : m \in ModelIds}
        \cup {UsageEvent(m, 0, 0, 0, 0, 0) : m \in ModelIds}

EventSequences == UNION {[1..n -> UsageEvents] : n \in 0..MaxEvents}

\* cachedData.models of the models.dev lookup, by model id
ModelsCache == [m \in {"claude-x", "gemini-y"} |->
                   IF m = "claude-x" THEN [provider |-> "anthropic"] ELSE [provider |-> "unknown"]]

\* cachedData.providers, by provider id
ProvidersCache == [p \in {"anthropic"} |-> [id |-> p, name |-> "Anthropic"]]

\* const EMPTY_DATA = { models: {}, providers: {} }
EMPTY_DATA == [models |-> <<>>, providers |-> <<>>]

MapHas(map, key) == \E k \in 1..Len(map) : map[k].key = key

MapGet(map, key) == map[CHOOSE k \in 1..Len(map) : map[k].key = key].value

MapSet(map, key, value) ==
    IF MapHas(map, key)
    THEN [k \in 1..Len(map) |-> IF map[k].key = key THEN [key |-> key, value |-> value] ELSE map[k]]
    ELSE Append(map, [key |-> key, value |-> value])

getEventTotal(event) ==
    LET computed == event.inputTokens + event.outputTokens
    IN  Max(event.totalTokens, computed)

freshUsage ==
    [inputTokens |-> 0, cachedInputTokens |-> 0, outputTokens |-> 0,
     reasoningTokens |-> 0, totalTokens |-> 0]

getOrCreateModelUsage(map, modelId) ==
    IF MapHas(map, modelId) THEN map ELSE MapSet(map, modelId, freshUsage)

zeroTotals ==
    [totalInputTokens |-> 0, totalCachedInputTokens |-> 0, totalOutputTokens |-> 0,
     totalReasoningTokens |-> 0, totalTokens |-> 0]

\* lines 157-161
foldTotals(t, event) ==
    [totalInputTokens       |-> t.totalInputTokens + event.inputTokens,
     totalCachedInputTokens |-> t.totalCachedInputTokens + event.cachedInputTokens,
     totalOutputTokens      |-> t.totalOutputTokens + event.outputTokens,
     totalReasoningTokens   |-> t.totalReasoningTokens + event.reasoningOutputTokens,
     totalTokens            |-> t.totalTokens + getEventTotal(event)]

\* the total of a model overwritten by the event instead of added to
foldUsageAssigns(map, event) ==
    LET created == getOrCreateModelUsage(map, event.model)
        usage   == MapGet(created, event.model)
    IN  MapSet(created, event.model,
               [inputTokens       |-> usage.inputTokens + event.inputTokens,
                cachedInputTokens |-> usage.cachedInputTokens + event.cachedInputTokens,
                outputTokens      |-> usage.outputTokens + event.outputTokens,
                reasoningTokens   |-> usage.reasoningTokens + event.reasoningOutputTokens,
                totalTokens       |-> getEventTotal(event)])

\* lines 163-168
foldUsage(map, event) ==
    LET created == getOrCreateModelUsage(map, event.model)
        usage   == MapGet(created, event.model)
    IN  MapSet(created, event.model,
               [inputTokens       |-> usage.inputTokens + event.inputTokens,
                cachedInputTokens |-> usage.cachedInputTokens + event.cachedInputTokens,
                outputTokens      |-> usage.outputTokens + event.outputTokens,
                reasoningTokens   |-> usage.reasoningTokens + event.reasoningOutputTokens,
                totalTokens       |-> usage.totalTokens + getEventTotal(event)])

getModelProvider(modelId) ==
    IF modelId \in DOMAIN cachedData.models /\ cachedData.models[modelId].provider # ""
    THEN cachedData.models[modelId].provider
    ELSE "unknown"

resolveProviderId(modelId) ==
    LET provider == getModelProvider(modelId)
    IN  IF provider # "" /\ provider # "unknown" THEN provider ELSE "openai"

\* lines 175-177
tokenTotal(usage) ==
    IF usage.totalTokens > 0
    THEN usage.totalTokens
    ELSE usage.inputTokens + usage.outputTokens + usage.reasoningTokens

\* the test of line 178 with < for <=
skipsModelStrict(count) == count < 0

\* line 178: if (tokenTotal <= 0) continue
skipsModel(count) == count <= 0

\* (count / denominator) * 100, or 0 when the denominator is not positive
percentageOf(count, denominator) ==
    IF denominator > 0 THEN [num |-> count * 100, den |-> denominator] ELSE [num |-> 0, den |-> 1]

\* an insertion that puts an element before its equals: an unstable sort
RECURSIVE insertByCountUnstable(_, _)
insertByCountUnstable(sorted, x) ==
    IF sorted = <<>> THEN <<x>>
    ELSE IF sorted[Len(sorted)].count > x.count THEN Append(sorted, x)
    ELSE Append(insertByCountUnstable(SubSeq(sorted, 1, Len(sorted) - 1), x), sorted[Len(sorted)])

\* Array.prototype.sort with (a, b) => b.count - a.count: stable, descending
RECURSIVE insertByCount(_, _)
insertByCount(sorted, x) ==
    IF sorted = <<>> THEN <<x>>
    ELSE IF sorted[Len(sorted)].count >= x.count THEN Append(sorted, x)
    ELSE Append(insertByCount(SubSeq(sorted, 1, Len(sorted) - 1), x), sorted[Len(sorted)])

RECURSIVE sortByCount(_)
sortByCount(list) ==
    IF list = <<>> THEN <<>>
    ELSE insertByCount(sortByCount(SubSeq(list, 1, Len(list) - 1)), list[Len(list)])

\* .slice(0, 3)
topThree(list) == SubSeq(list, 1, Min(3, Len(list)))

RECURSIVE sumCounts(_)
sumCounts(list) == IF list = <<>> THEN 0 ELSE list[1].count + sumCounts(Tail(list))

percentageDenominator(t, stats) == IF t.totalTokens > 0 THEN t.totalTokens ELSE sumCounts(stats)

withPercentage(list, denominator) ==
    [k \in 1..Len(list) |->
        [list[k] EXCEPT !.percentage = percentageOf(list[k].count, denominator)]]

RenderIdle ==
    /\ env = EnvOf(Unset, Unset, Unset, Unset)
    /\ pngBuffer = <<>>
    /\ terminal = NoTerminal
    /\ base64Data = <<>>
    /\ i = 0
    /\ stdout = <<>>
    /\ pc = "idle"
    /\ result = "pending"
    /\ failure = "none"

StatsInit ==
    /\ cachedData = [models |-> ModelsCache, providers |-> ProvidersCache]
    /\ events \in EventSequences
    /\ idx = 0
    /\ totals = zeroTotals
    /\ modelUsageTotals = <<>>
    /\ modelStats = <<>>
    /\ providerCounts = <<>>
    /\ topModels = <<>>
    /\ topProviders = <<>>
    /\ spc = "fold"

\* lines 154-169: one iteration of the aggregation loop
FoldEvent ==
    /\ spc = "fold"
    /\ idx < Len(events)
    /\ totals' = foldTotals(totals, events[idx + 1])
    /\ modelUsageTotals' = foldUsage(modelUsageTotals, events[idx + 1])
    /\ idx' = idx + 1
    /\ UNCHANGED <<exceptStats, cachedData, events, modelStats, providerCounts, topModels, topProviders, spc>>

\* lines 171-172: the loop over the events has ended
StartCollect ==
    /\ spc = "fold"
    /\ idx = Len(events)
    /\ providerCounts' = <<>>
    /\ modelStats' = <<>>
    /\ idx' = 0
    /\ spc' = "collect"
    /\ UNCHANGED <<exceptStats, cachedData, events, totals, modelUsageTotals, topModels, topProviders>>

\* lines 174-190: one iteration over modelUsageTotals.entries()
CollectModel ==
    /\ spc = "collect"
    /\ idx < Len(modelUsageTotals)
    /\ LET modelId    == modelUsageTotals[idx + 1].key
           count      == tokenTotal(modelUsageTotals[idx + 1].value)
           providerId == resolveProviderId(modelId)
           before     == IF MapHas(providerCounts, providerId)
                         THEN MapGet(providerCounts, providerId) ELSE 0
       IN  IF skipsModel(count)
           THEN UNCHANGED <<providerCounts, modelStats>>
           ELSE /\ providerCounts' = MapSet(providerCounts, providerId, before + count)
                /\ modelStats' = Append(modelStats,
                       [id |-> modelId, providerId |-> providerId, count |-> count,
                        percentage |-> percentageOf(0, 0)])
    /\ idx' = idx + 1
    /\ UNCHANGED <<exceptStats, cachedData, events, totals, modelUsageTotals, topModels, topProviders, spc>>

\* lines 192-211: the two rankings
Rank ==
    /\ spc = "collect"
    /\ idx = Len(modelUsageTotals)
    /\ LET denominator == percentageDenominator(totals, modelStats)
           providers   == [k \in 1..Len(providerCounts) |->
                              [id |-> providerCounts[k].key, count |-> providerCounts[k].value,
                               percentage |-> percentageOf(0, 0)]]
       IN  /\ topModels' = withPercentage(topThree(sortByCount(modelStats)), denominator)
           /\ topProviders' = withPercentage(topThree(sortByCount(providers)), denominator)
    /\ spc' = "done"
    /\ UNCHANGED <<exceptStats, cachedData, events, idx, totals, modelUsageTotals, modelStats, providerCounts>>

NextStats ==
    \/ FoldEvent
    \/ StartCollect
    \/ CollectModel
    \/ Rank

InitStats == StatsInit /\ RenderIdle /\ ActivityIdle /\ CostIdle /\ FetchIdle

SpecStats == InitStats /\ [][NextStats]_vars

(***************************************************************************)
(* Claims about the aggregation and the rankings.                          *)
(***************************************************************************)
RECURSIVE aggregateTotals(_)
aggregateTotals(list) ==
    IF list = <<>> THEN zeroTotals
    ELSE foldTotals(aggregateTotals(SubSeq(list, 1, Len(list) - 1)), list[Len(list)])

RECURSIVE aggregateUsage(_)
aggregateUsage(list) ==
    IF list = <<>> THEN <<>>
    ELSE foldUsage(aggregateUsage(SubSeq(list, 1, Len(list) - 1)), list[Len(list)])

\* a Map as the function it represents: key -> value
AsFunction(map) == [key \in {map[k].key : k \in 1..Len(map)} |-> MapGet(map, key)]

IndexPermutations(n) == {q \in [1..n -> 1..n] : \A a, b \in 1..n : q[a] = q[b] => a = b}

Permuted(list, q) == [k \in 1..Len(list) |-> list[q[k]]]

\* the aggregation loop has folded every event (line 169)
FoldEnded == spc = "fold" /\ idx = Len(events)

\* C9: accumulation is order-independent: folding any permutation of the
\* events gives the same per-model ModelUsageTotals and the same grand totals
\* (input, cached, output, reasoning, effective total) as the loop has
\* accumulated.
C9_OrderIndependent ==
    FoldEnded =>
        \A q \in IndexPermutations(Len(events)) :
            /\ aggregateTotals(Permuted(events, q)) = totals
            /\ AsFunction(aggregateUsage(Permuted(events, q))) = AsFunction(modelUsageTotals)

C9_Witness ==
    /\ FoldEnded
    /\ Len(events) = 3
    /\ events[1].model # events[2].model
    /\ events[1].model = events[3].model
    /\ events[1] # events[3]
    /\ \E q \in IndexPermutations(3) : aggregateUsage(Permuted(events, q)) # modelUsageTotals

Entries == [k \in 1..(Len(topModels) + Len(topProviders)) |->
               IF k <= Len(topModels) THEN topModels[k].percentage
               ELSE topProviders[k - Len(topModels)].percentage]

\* C10 as claimed: with totalTokens > 0 as the denominator every percentage
\* of topModels and topProviders is non-negative and at most 100.
C10_PercentagesBounded ==
    (spc = "done" /\ totals.totalTokens > 0) =>
        \A k \in 1..Len(Entries) :
            /\ Entries[k].den > 0
            /\ Entries[k].num >= 0
            /\ Entries[k].num <= 100 * Entries[k].den

(***************************************************************************)
(* The rankings over more models and providers than the top three hold.    *)
(***************************************************************************)
\* the longest sequence of usage events of the ranking runs
MaxRankEvents == 4

RankModelIds == {"gpt-5", "claude-x", "gemini-y", "grok-z", "llama-w"}

\* counts of 2 and of 3 for every model, so that equal counts happen
RankEvents ==
    {UsageEvent(m, 1, 0, 1, 0, 2) : m \in RankModelIds}
        \cup {UsageEvent(m, 2, 1, 1, 1, 0) : m \in RankModelIds}

RankEventSequences == UNION {[1..n -> RankEvents] : n \in 0..MaxRankEvents}

RankModelsCache ==
    [m \in {"claude-x", "gemini-y", "grok-z", "llama-w"} |->
        CASE m = "claude-x" -> [provider |-> "anthropic"]
          [] m = "gemini-y" -> [provider |-> "unknown"]
          [] m = "grok-z"   -> [provider |-> "xai"]
          [] OTHER          -> [provider |-> "meta"]]

RankInit ==
    /\ cachedData = [models |-> RankModelsCache, providers |-> ProvidersCache]
    /\ events \in RankEventSequences
    /\ idx = 0
    /\ totals = zeroTotals
    /\ modelUsageTotals = <<>>
    /\ modelStats = <<>>
    /\ providerCounts = <<>>
    /\ topModels = <<>>
    /\ topProviders = <<>>
    /\ spc = "fold"

InitRank == RankInit /\ RenderIdle /\ ActivityIdle /\ CostIdle /\ FetchIdle

SpecRank == InitRank /\ [][NextStats]_vars

\* the index of the first event of a model
FirstSeen(modelId) == CHOOSE k \in 1..Len(events) :
    events[k].model = modelId /\ \A j \in 1..(k - 1) : events[j].model # modelId

\* the models that are ranked: [id, count, first]
ModelCandidates ==
    [k \in 1..Len(modelStats) |->
        [id |-> modelStats[k].id, count |-> modelStats[k].count,
         first |-> FirstSeen(modelStats[k].id)]]

ProviderIds == {modelStats[k].providerId : k \in 1..Len(modelStats)}

RECURSIVE SumOver(_, _)
SumOver(S, f) ==
    IF S = {} THEN 0
    ELSE LET x == CHOOSE y \in S : TRUE IN f[x] + SumOver(S \ {x}, f)

ModelsOf(providerId) == {k \in 1..Len(modelStats) : modelStats[k].providerId = providerId}

\* the providers that are ranked, in any order: [id, count, first]
ProviderCandidates ==
    {[id    |-> p,
      count |-> SumOver(ModelsOf(p), [k \in ModelsOf(p) |-> modelStats[k].count]),
      first |-> CHOOSE f \in {ModelCandidates[k].first : k \in ModelsOf(p)} :
                    \A k \in ModelsOf(p) : f <= ModelCandidates[k].first] : p \in ProviderIds}

\* `top` is the stable descending top three of the candidates
IsTopThree(top, candidates) ==
    LET Of(e) == CHOOSE c \in candidates : c.id = e.id
    IN  /\ Len(top) <= 3
        /\ Len(top) = Min(3, Cardinality(candidates))
        /\ \A a \in 1..Len(top) : \E c \in candidates : c.id = top[a].id /\ c.count = top[a].count
        /\ \A a, b \in 1..Len(top) : a < b =>
              /\ top[a].id # top[b].id
              /\ top[a].count >= top[b].count
              /\ top[a].count = top[b].count => Of(top[a]).first < Of(top[b]).first
        /\ \A c \in candidates : (\A a \in 1..Len(top) : top[a].id # c.id) =>
              \A a \in 1..Len(top) : top[a].count >= c.count

\* C11: topModels and topProviders hold at most 3 entries each, in
\* non-increasing order of count, no entry smaller than an omitted one, and
\* entries of equal count in the order in which their model (for a provider:
\* the first of its ranked models) was first encountered in the events.
C11_TopThreeStable ==
    spc = "done" =>
        /\ IsTopThree(topModels, {ModelCandidates[k] : k \in 1..Len(modelStats)})
        /\ IsTopThree(topProviders, ProviderCandidates)

C11_Witness ==
    /\ spc = "done"
    /\ Len(modelStats) = 4
    /\ Cardinality(ProviderIds) = 4
    /\ modelStats[1].count = 2
    /\ modelStats[2].count = 3
    /\ modelStats[3].count = 2
    /\ modelStats[4].count = 3
    /\ Len(topModels) = 3
    /\ topModels[3].id = modelStats[1].id

\* every counter of the accumulated usage is zero
AllZero(usage) ==
    /\ usage.inputTokens = 0
    /\ usage.cachedInputTokens = 0
    /\ usage.outputTokens = 0
    /\ usage.reasoningTokens = 0
    /\ usage.totalTokens = 0

ZeroModels == {modelUsageTotals[k].key : k \in {j \in 1..Len(modelUsageTotals) :
                                                  AllZero(modelUsageTotals[j].value)}}

UsedModels == {modelUsageTotals[k].key : k \in 1..Len(modelUsageTotals)} \ ZeroModels

\* C12: a model whose accumulated counters are all zero never appears in
\* topModels (nor among the ranked models), and adds nothing to topProviders:
\* a provider is ranked only through a model with some non-zero counter.
C12_ZeroModelsExcluded ==
    spc = "done" =>
        /\ \A k \in 1..Len(topModels) : topModels[k].id \notin ZeroModels
        /\ \A k \in 1..Len(modelStats) : modelStats[k].id \notin ZeroModels
        /\ \A k \in 1..Len(topProviders) :
              /\ topProviders[k].count > 0
              /\ \E m \in UsedModels : resolveProviderId(m) = topProviders[k].id

C12_Witness ==
    /\ spc = "done"
    /\ ZeroModels = {"claude-x"}
    /\ Len(modelUsageTotals) = 3
    /\ Len(topModels) = 2
    /\ Len(topProviders) = 1
    /\ topProviders[1].id = "openai"


(***************************************************************************)
(* The temporal activity analysis: weekday bucketing, calculateStreaks,    *)
(* countStreakBackwards, findMostActiveDay and buildWeekdayActivity.       *)
(*                                                                         *)
(* A date key "YYYY-MM-DD" is the triple <<year, month, day>>; the string  *)
(* order of zero-padded keys is the lexicographic order of the triples.    *)
(* An instant (a Date) is a number of hours since 1970-01-01T00:00Z.       *)
(***************************************************************************)
WindowDays == 6

\* 24 * 60 * 60 * 1000 milliseconds, counted in hours
HoursPerDay == 24

\* days since 1970-01-01 of a calendar date (proleptic Gregorian calendar)
DaysFromCivil(key) ==
    LET y == IF key[2] <= 2 THEN key[1] - 1 ELSE key[1]
        era == y \div 400
        yoe == y - era * 400
        mp == IF key[2] > 2 THEN key[2] - 3 ELSE key[2] + 9
        doy == (153 * mp + 2) \div 5 + key[3] - 1
        doe == yoe * 365 + yoe \div 4 - yoe \div 100 + doy
    IN era * 146097 + doe - 719468

\* the calendar date of a number of days since 1970-01-01
CivilFromDays(n) ==
    LET z == n + 719468
        era == z \div 146097
        doe == z - era * 146097
        yoe == (doe - doe \div 1460 + doe \div 36524 - doe \div 146096) \div 365
        doy == doe - (365 * yoe + yoe \div 4 - yoe \div 100)
        mp == (5 * doy + 2) \div 153
        d == doy - (153 * mp + 2) \div 5 + 1
        m == IF mp < 10 THEN mp + 3 ELSE mp - 9
    IN <<yoe + era * 400 + (IF m <= 2 THEN 1 ELSE 0), m, d>>

\* new Date("YYYY-MM-DD"): a date-only string is parsed as midnight UTC
parseDate(key) == DaysFromCivil(key) * HoursPerDay

\* the local time zones of the process
Zones == {"UTC", "America/New_York", "Europe/Berlin"}

\* local time minus UTC, in hours, for instants between late 2023 and early 2025
utcOffset(z, t) ==
    CASE z = "UTC" -> 0
      [] z = "America/New_York" ->
            IF /\ t >= parseDate(<<2024, 3, 10>>) + 7
               /\ t < parseDate(<<2024, 11, 3>>) + 6
            THEN 0 - 4 ELSE 0 - 5
      [] z = "Europe/Berlin" ->
            IF /\ t >= parseDate(<<2024, 3, 31>>) + 1
               /\ t < parseDate(<<2024, 10, 27>>) + 1
            THEN 2 ELSE 1

localDay(z, t) == (t + utcOffset(z, t)) \div HoursPerDay

\* Date.prototype.getHours
localHour(z, t) == (t + utcOffset(z, t)) % HoursPerDay

\* Date.prototype.getDay: the weekday in local time, Sunday = 0
getDay(z, t) == (localDay(z, t) + 4) % 7

\* getFullYear, getMonth() + 1, getDate: the date in local time
formatDateKey(z, t) == CivilFromDays(localDay(z, t))

\* the comparison of Array.prototype.sort without a comparator, on date keys
KeyLess(a, b) ==
    \/ a[1] < b[1]
    \/ a[1] = b[1] /\ a[2] < b[2]
    \/ a[1] = b[1] /\ a[2] = b[2] /\ a[3] < b[3]

RECURSIVE insertKey(_, _)
insertKey(sorted, x) ==
    IF sorted = <<>> THEN <<x>>
    ELSE IF ~KeyLess(x, sorted[Len(sorted)]) THEN Append(sorted, x)
    ELSE Append(insertKey(SubSeq(sorted, 1, Len(sorted) - 1), x), sorted[Len(sorted)])

RECURSIVE sortKeys(_)
sortKeys(list) ==
    IF list = <<>> THEN <<>>
    ELSE insertKey(sortKeys(SubSeq(list, 1, Len(list) - 1)), list[Len(list)])

\* Array.from(dailyActivity.keys())
keysOf(map) == [k \in 1..Len(map) |-> map[k].key]

\* date.startsWith(String(year)), for four-digit years
startsWithYear(key, yr) == key[1] = yr

activeDatesOf(map, yr) ==
    sortKeys(SelectSeq(keysOf(map), LAMBDA key : startsWithYear(key, yr)))

\* Math.round(numerator / denominator), denominator > 0
round(numerator, denominator) == (2 * numerator + denominator) \div (2 * denominator)

diffDays(prevKey, currKey) == round(parseDate(currKey) - parseDate(prevKey), HoursPerDay)

\* the loop of calculateStreaks over the sorted dates; indices count from 1
RECURSIVE streakLoop(_, _, _)
streakLoop(activeDates, k, st) ==
    IF k > Len(activeDates) THEN st
    ELSE IF diffDays(activeDates[k - 1], activeDates[k]) = 1
    THEN LET tempStreak == st.tempStreak + 1
         IN streakLoop(activeDates, k + 1,
                IF tempStreak > st.maxStreak
                THEN [st EXCEPT !.tempStreak = tempStreak, !.maxStreak = tempStreak,
                                !.maxStreakStart = st.tempStreakStart, !.maxStreakEnd = k]
                ELSE [st EXCEPT !.tempStreak = tempStreak])
    ELSE streakLoop(activeDates, k + 1, [st EXCEPT !.tempStreak = 1, !.tempStreakStart = k])

\* activeDates[k]: undefined outside the array
elementAt(list, k) == IF k \in DOMAIN list THEN list[k] ELSE "undefined"

RECURSIVE countBackLoop(_, _, _, _)
countBackLoop(map, z, checkDate, streak) ==
    LET previous == checkDate - HoursPerDay
    IN IF MapHas(map, formatDateKey(z, previous))
       THEN countBackLoop(map, z, previous, streak + 1)
       ELSE streak

countStreakBackwards(map, z, startDate) == countBackLoop(map, z, startDate, 1)

noActiveDatesNever(activeDates) == FALSE

\* activeDates.length === 0
noActiveDates(activeDates) == Len(activeDates) = 0

\* calculateStreaks(dailyActivity, year), in time zone z at the instant t
calculateStreaks(map, yr, z, t) ==
    LET activeDates == activeDatesOf(map, yr)
    IN IF noActiveDates(activeDates)
       THEN [maxStreak |-> 0, currentStreak |-> 0, maxStreakDays |-> {}]
       ELSE LET st == streakLoop(activeDates, 2,
                         [maxStreak |-> 1, tempStreak |-> 1, tempStreakStart |-> 1,
                          maxStreakStart |-> 1, maxStreakEnd |-> 1])
                today == formatDateKey(z, t)
                yesterday == formatDateKey(z, t - HoursPerDay)
            IN [maxStreak |-> st.maxStreak,
                currentStreak |->
                    IF MapHas(map, today) THEN countStreakBackwards(map, z, t)
                    ELSE IF MapHas(map, yesterday)
                    THEN countStreakBackwards(map, z, t - HoursPerDay)
                    ELSE 0,
                maxStreakDays |->
                    {elementAt(activeDates, k) : k \in st.maxStreakStart..st.maxStreakEnd}]

RECURSIVE mostActiveLoop(_, _, _)
mostActiveLoop(map, k, st) ==
    IF k > Len(map) THEN st
    ELSE mostActiveLoop(map, k + 1,
            IF map[k].value > st.maxCount
            THEN [maxDate |-> map[k].key, maxCount |-> map[k].value]
            ELSE st)

findMostActiveDay(map) ==
    IF Len(map) = 0 THEN "null"
    ELSE LET st == mostActiveLoop(map, 1, [maxDate |-> "", maxCount |-> 0])
         IN IF st.maxDate = "" THEN "null"
            ELSE [date |-> st.maxDate, count |-> st.maxCount,
                  formattedDate |-> <<st.maxDate[2], st.maxDate[3]>>]

\* the loop of calculateStats over dailyActivity.entries()
RECURSIVE countWeekdays(_, _, _)
countWeekdays(map, z, k) ==
    IF k = 0 THEN [w \in 0..6 |-> 0]
    ELSE LET counts == countWeekdays(map, z, k - 1)
             weekday == getDay(z, parseDate(map[k].key))
         IN [counts EXCEPT ![weekday] = @ + map[k].value]

WEEKDAY_NAMES_FULL ==
    <<"Sunday", "Monday", "Tuesday", "Wednesday", "Thursday", "Friday", "Saturday">>

exceedsOrTies(count, maxCount) == count >= maxCount

\* counts[i] > maxCount
exceeds(count, maxCount) == count > maxCount

RECURSIVE weekdayLoop(_, _, _)
weekdayLoop(counts, k, st) ==
    IF k >= 7 THEN st
    ELSE weekdayLoop(counts, k + 1,
            IF exceeds(counts[k], st.maxCount)
            THEN [maxCount |-> counts[k], mostActiveDay |-> k]
            ELSE st)

buildWeekdayActivity(counts) ==
    LET st == weekdayLoop(counts, 0, [mostActiveDay |-> 0, maxCount |-> 0])
    IN [counts |-> counts, mostActiveDay |-> st.mostActiveDay,
        mostActiveDayName |-> WEEKDAY_NAMES_FULL[st.mostActiveDay + 1],
        maxCount |-> st.maxCount]

(***************************************************************************)
(* Inputs of the analysis: activity on any subset of a window of calendar  *)
(* days (across a new year, and across the two daylight-saving changes of  *)
(* America/New_York in 2024), read at an instant of the window's last day  *)
(* or of the day after it.                                                 *)
(***************************************************************************)
ActivityAnchors == {<<2023, 12, 31>>, <<2024, 3, 7>>, <<2024, 10, 31>>}

Years == {2023, 2024}

WindowOf(anchor) == {DaysFromCivil(anchor) + k : k \in 0..(WindowDays - 1)}

LastDay(anchor) == DaysFromCivil(anchor) + WindowDays - 1

\* event counts per day: one event on every day, or 0, 1 or 2 by the day
CountProfiles == {"ones", "mixed"}

countOf(profile, n) == IF profile = "ones" THEN 1 ELSE n % 3

\* the Map with one entry per day of the set, the latest day inserted first
RECURSIVE ActivityMap(_, _)
ActivityMap(days, profile) ==
    IF days = {} THEN <<>>
    ELSE LET latest == CHOOSE n \in days : \A other \in days : other <= n
         IN <<[key |-> CivilFromDays(latest), value |-> countOf(profile, latest)]>>
            \o ActivityMap(days \ {latest}, profile)

NowHours == {0, 12, 23}

Nows(z, lastDay) ==
    {t \in (lastDay * HoursPerDay - 14)..(lastDay * HoursPerDay + 60) :
        /\ localDay(z, t) \in {lastDay, lastDay + 1}
        /\ localHour(z, t) \in NowHours}

ActivityInit ==
    /\ zone \in Zones
    /\ year \in Years
    /\ \E anchor \in ActivityAnchors, profile \in CountProfiles :
        /\ \E days \in SUBSET WindowOf(anchor) : dailyActivity = ActivityMap(days, profile)
        /\ now \in Nows(zone, LastDay(anchor))
    /\ weekdayCounts = <<>>
    /\ streaks = <<>>
    /\ mostActiveDay = <<>>
    /\ weekdayActivity = <<>>
    /\ apc = "start"

\* what the activity analysis leaves alone
exceptActivity == <<renderVars, statsVars, costVars, fetchVars>>

CountWeekdays ==
    /\ apc = "start"
    /\ weekdayCounts' = countWeekdays(dailyActivity, zone, Len(dailyActivity))
    /\ apc' = "counted"
    /\ UNCHANGED <<exceptActivity, dailyActivity, year, now, zone, streaks, mostActiveDay,
                   weekdayActivity>>

CalculateStreaks ==
    /\ apc = "counted"
    /\ streaks' = calculateStreaks(dailyActivity, year, zone, now)
    /\ apc' = "streaks"
    /\ UNCHANGED <<exceptActivity, dailyActivity, year, now, zone, weekdayCounts,
                   mostActiveDay, weekdayActivity>>

FindMostActiveDay ==
    /\ apc = "streaks"
    /\ mostActiveDay' = findMostActiveDay(dailyActivity)
    /\ apc' = "most"
    /\ UNCHANGED <<exceptActivity, dailyActivity, year, now, zone, weekdayCounts, streaks,
                   weekdayActivity>>

BuildWeekdayActivity ==
    /\ apc = "most"
    /\ weekdayActivity' = buildWeekdayActivity(weekdayCounts)
    /\ apc' = "done"
    /\ UNCHANGED <<exceptActivity, dailyActivity, year, now, zone, weekdayCounts, streaks,
                   mostActiveDay>>

NextActivity ==
    \/ CountWeekdays
    \/ CalculateStreaks
    \/ FindMostActiveDay
    \/ BuildWeekdayActivity

InitActivity == ActivityInit /\ RenderIdle /\ StatsIdle /\ CostIdle /\ FetchIdle

SpecActivity == InitActivity /\ [][NextActivity]_vars

(***************************************************************************)
(* Claims about the activity analysis.                                     *)
(***************************************************************************)
StreaksDone == apc \in {"streaks", "most", "done"}

\* the weekday of a calendar date, Sunday = 0
CalendarWeekday(key) == (DaysFromCivil(key) + 4) % 7

KeySet == {dailyActivity[k].key : k \in 1..Len(dailyActivity)}

\* the dates of n calendar-consecutive days from the day numbered first
RunFrom(first, n) == {CivilFromDays(first + k) : k \in 0..(n - 1)}

\* the days on which a run of keys of the year could start
KeyDays(yr) == {DaysFromCivil(key) : key \in {other \in KeySet : other[1] = yr}}

\* C13 as claimed: maxStreakDays holds exactly maxStreak calendar-contiguous
\* dates of the target year, each a key of DailyActivity with a non-zero
\* count, and the year has no longer run of calendar-consecutive keys.
C13_MaxStreakDays ==
    StreaksDone =>
        /\ Cardinality(streaks.maxStreakDays) = streaks.maxStreak
        /\ \/ streaks.maxStreak = 0
           \/ \E first \in KeyDays(year) :
                 streaks.maxStreakDays = RunFrom(first, streaks.maxStreak)
        /\ \A key \in streaks.maxStreakDays :
              /\ key[1] = year
              /\ MapHas(dailyActivity, key)
              /\ MapGet(dailyActivity, key) # 0
        /\ \A first \in KeyDays(year) :
              ~(RunFrom(first, streaks.maxStreak + 1) \subseteq {key \in KeySet : key[1] = year})

\* the same with the counts left out: the day-set and its maximality alone
C13_RunOfKeys ==
    StreaksDone =>
        /\ Cardinality(streaks.maxStreakDays) = streaks.maxStreak
        /\ \/ streaks.maxStreak = 0
           \/ \E first \in KeyDays(year) :
                 streaks.maxStreakDays = RunFrom(first, streaks.maxStreak)
        /\ \A key \in streaks.maxStreakDays : key[1] = year /\ MapHas(dailyActivity, key)
        /\ \A first \in KeyDays(year) :
              ~(RunFrom(first, streaks.maxStreak + 1) \subseteq {key \in KeySet : key[1] = year})

Today == localDay(zone, now)

RECURSIVE RunEndingAt(_)
RunEndingAt(n) == IF CivilFromDays(n) \in KeySet THEN 1 + RunEndingAt(n - 1) ELSE 0

\* C15 as claimed: the current streak is the number of distinct calendar-
\* consecutive keys ending at today, or else at the calendar day before
\* today, or else 0: at every time of day and for days of 23, 24 and 25 hours.
C15_CurrentStreakByCalendarDay ==
    StreaksDone =>
        streaks.currentStreak =
            IF CivilFromDays(Today) \in KeySet THEN RunEndingAt(Today)
            ELSE RunEndingAt(Today - 1)

\* C16 as claimed: every date key increments the bucket of the weekday of its
\* calendar date, in every time zone.
C16_LocalWeekdayBucket ==
    apc # "start" =>
        \A w \in 0..6 :
            weekdayCounts[w] =
                SumOver({k \in 1..Len(dailyActivity) : CalendarWeekday(dailyActivity[k].key) = w},
                        [k \in 1..Len(dailyActivity) |-> dailyActivity[k].value])

\* C18: an activity map with no entries gives maxStreak 0, currentStreak 0,
\* an empty maxStreakDays and no most active day.
C18_EmptyActivity ==
    (apc = "done" /\ Len(dailyActivity) = 0) =>
        /\ streaks.maxStreak = 0
        /\ streaks.currentStreak = 0
        /\ streaks.maxStreakDays = {}
        /\ mostActiveDay = "null"
        /\ weekdayActivity.maxCount = 0

C18_Witness == apc = "done" /\ Len(dailyActivity) = 0 /\ streaks.maxStreak = 0

(***************************************************************************)
(* buildWeekdayActivity as a pure function: every vector of seven counts   *)
(* up to MaxCount.                                                         *)
(***************************************************************************)
MaxCount == 1

WeekdayInit ==
    /\ weekdayCounts \in [0..6 -> 0..MaxCount]
    /\ dailyActivity = <<>>
    /\ year = 0
    /\ now = 0
    /\ zone = "idle"
    /\ streaks = <<>>
    /\ mostActiveDay = <<>>
    /\ weekdayActivity = <<>>
    /\ apc = "most"

InitWeekday == WeekdayInit /\ RenderIdle /\ StatsIdle /\ CostIdle /\ FetchIdle

SpecWeekday == InitWeekday /\ [][BuildWeekdayActivity]_vars

MaxOfCounts(counts) == CHOOSE c \in {counts[w] : w \in 0..6} : \A w \in 0..6 : counts[w] <= c

\* C17: counts[mostActiveDay] = maxCount = max(counts), and mostActiveDay is
\* the lowest index that attains the maximum (index 0 when every count is 0).
C17_WeekdayMaximum ==
    apc = "done" =>
        /\ weekdayActivity.counts = weekdayCounts
        /\ weekdayActivity.maxCount = MaxOfCounts(weekdayCounts)
        /\ weekdayCounts[weekdayActivity.mostActiveDay] = weekdayActivity.maxCount
        /\ \A w \in 0..6 :
              weekdayCounts[w] = weekdayActivity.maxCount => weekdayActivity.mostActiveDay <= w

\* the maximum is attained twice, and first at an index after 0
C17_Witness ==
    /\ apc = "done"
    /\ weekdayActivity.mostActiveDay = 2
    /\ weekdayCounts[5] = weekdayActivity.maxCount
    /\ weekdayActivity.maxCount > 0

(***************************************************************************)
(* calculateUsageCost: the cost estimate that ends calculateStats.  The    *)
(* pricing module is outside the sources: getModelPricing is asynchronous  *)
(* and returns a price, returns none, or fails; calculateCostUSD gives a   *)
(* finite number or one that is not finite.                                *)
(***************************************************************************)
MaxCostEvents == 2

CostEventSequences == UNION {[1..n -> UsageEvents] : n \in 0..MaxCostEvents}

CostStatsInit ==
    /\ cachedData = [models |-> ModelsCache, providers |-> ProvidersCache]
    /\ events \in CostEventSequences
    /\ idx = 0
    /\ totals = zeroTotals
    /\ modelUsageTotals = <<>>
    /\ modelStats = <<>>
    /\ providerCounts = <<>>
    /\ topModels = <<>>
    /\ topProviders = <<>>
    /\ spc = "fold"

\* calculateCostUSD of a usage at one unit per input, cached and output token
calculateCostUSD(usage) == usage.inputTokens + usage.cachedInputTokens + usage.outputTokens

\* lines 290-297: not every one of the four counts is 0
hasUsage(usage) ==
    ~(/\ usage.inputTokens = 0
      /\ usage.cachedInputTokens = 0
      /\ usage.outputTokens = 0
      /\ usage.reasoningTokens = 0)

\* what the cost estimate leaves alone
exceptCost == <<renderVars, statsVars, activityVars, fetchVars>>

\* line 224: calculateUsageCost is called once the rankings are built
StartCost ==
    /\ spc = "done"
    /\ cpc = "idle"
    /\ cpc' = "loop"
    /\ costIdx' = 0
    /\ totalCost' = 0
    /\ costLog' = <<>>
    /\ UNCHANGED exceptCost

\* lines 289-297: a model without usage is passed over
SkipUnused ==
    /\ cpc = "loop"
    /\ costIdx < Len(modelUsageTotals)
    /\ ~hasUsage(modelUsageTotals[costIdx + 1].value)
    /\ costIdx' = costIdx + 1
    /\ UNCHANGED <<exceptCost, totalCost, costLog, cpc>>

\* lines 299-300: the lookup resolves without a price
PricingMissing ==
    /\ cpc = "loop"
    /\ costIdx < Len(modelUsageTotals)
    /\ hasUsage(modelUsageTotals[costIdx + 1].value)
    /\ costIdx' = costIdx + 1
    /\ costLog' = Append(costLog, [modelId |-> modelUsageTotals[costIdx + 1].key,
                                   outcome |-> "none", cost |-> 0])
    /\ UNCHANGED <<exceptCost, totalCost, cpc>>

\* line 299: the awaited lookup rejects; nothing catches it in calculateUsageCost
\* or at line 224, so the promise of calculateStats rejects
PricingRejects ==
    /\ cpc = "loop"
    /\ costIdx < Len(modelUsageTotals)
    /\ hasUsage(modelUsageTotals[costIdx + 1].value)
    /\ cpc' = "rejected"
    /\ costLog' = Append(costLog, [modelId |-> modelUsageTotals[costIdx + 1].key,
                                   outcome |-> "rejects", cost |-> 0])
    /\ UNCHANGED <<exceptCost, costIdx, totalCost>>

\* lines 302-313: a finite cost is added
CostAdded ==
    /\ cpc = "loop"
    /\ costIdx < Len(modelUsageTotals)
    /\ hasUsage(modelUsageTotals[costIdx + 1].value)
    /\ LET cost == calculateCostUSD(modelUsageTotals[costIdx + 1].value)
       IN /\ totalCost' = totalCost + cost
          /\ costLog' = Append(costLog, [modelId |-> modelUsageTotals[costIdx + 1].key,
                                         outcome |-> "price", cost |-> cost])
    /\ costIdx' = costIdx + 1
    /\ UNCHANGED <<exceptCost, cpc>>

\* lines 302-311: a cost that is not finite is left out
CostNotFinite ==
    /\ cpc = "loop"
    /\ costIdx < Len(modelUsageTotals)
    /\ hasUsage(modelUsageTotals[costIdx + 1].value)
    /\ costIdx' = costIdx + 1
    /\ costLog' = Append(costLog, [modelId |-> modelUsageTotals[costIdx + 1].key,
                                   outcome |-> "notFinite", cost |-> 0])
    /\ UNCHANGED <<exceptCost, totalCost, cpc>>

\* line 316
ReturnCost ==
    /\ cpc = "loop"
    /\ costIdx = Len(modelUsageTotals)
    /\ cpc' = "returned"
    /\ UNCHANGED <<exceptCost, costIdx, totalCost, costLog>>

NextCost ==
    \/ FoldEvent
    \/ StartCollect
    \/ CollectModel
    \/ Rank
    \/ StartCost
    \/ SkipUnused
    \/ PricingMissing
    \/ PricingRejects
    \/ CostAdded
    \/ CostNotFinite
    \/ ReturnCost

InitCost == CostStatsInit /\ RenderIdle /\ ActivityIdle /\ CostIdle /\ FetchIdle

SpecCost == InitCost /\ [][NextCost]_vars

RECURSIVE SumOfCosts(_)
SumOfCosts(log) ==
    IF log = <<>> THEN 0
    ELSE (IF log[1].outcome = "price" THEN log[1].cost ELSE 0) + SumOfCosts(Tail(log))

\* C19 as claimed: no outcome of a pricing lookup aborts the summary, and the
\* total returned is the sum of the finite costs of the models with usage.
C19_PricingNeverAborts ==
    /\ cpc # "rejected"
    /\ cpc = "returned" =>
          /\ totalCost = SumOfCosts(costLog)
          /\ \A k \in 1..Len(modelUsageTotals) :
                hasUsage(modelUsageTotals[k].value)
                    <=> \E j \in 1..Len(costLog) : costLog[j].modelId = modelUsageTotals[k].key

\* the same without the failing lookup: none, and a cost that is not finite
C19_MissingOrNotFiniteSkipped ==
    cpc = "returned" =>
        /\ totalCost = SumOfCosts(costLog)
        /\ \A k \in 1..Len(modelUsageTotals) :
              hasUsage(modelUsageTotals[k].value)
                  <=> \E j \in 1..Len(costLog) : costLog[j].modelId = modelUsageTotals[k].key

(***************************************************************************)
(* fetchModelsData: the one lookup of models.dev per process.  JavaScript  *)
(* runs one callback at a time, so a call runs undisturbed up to the first *)
(* await of the request, and the request's continuation up to its next     *)
(* await or its end; other calls come in between.                          *)
(***************************************************************************)
MaxCallers == 3

Callers == 1..MaxCallers

\* cachedData = { models, providers } as built from a response: with entries,
\* or without any (a response that is an empty object)
FetchedData ==
    {[models |-> ModelsCache, providers |-> ProvidersCache],
     [models |-> <<>>, providers |-> <<>>]}

\* what rejects the awaited fetch: the network, the abort after
\* FETCH_ABORT_TIMEOUT_MS, or withTimeout after FETCH_HARD_TIMEOUT_MS
RequestFailures == {"network error", "aborted", "models.dev request timed out"}

\* what rejects the awaited response.json()
ParseFailures == {"invalid JSON", "aborted", "models.dev response parsing timed out"}

joinsInFlightNever(inFlight) == FALSE

\* if (fetchInFlight)
joinsInFlight(inFlight) == inFlight # "null"

Idle(c) == callers[c].state = "idle"

Awaits(c, via) == [callers EXCEPT ![c] = [state |-> "pending", via |-> via, value |-> "none"]]

\* catch without a rethrow, then finally: the promise of the request is
\* fulfilled with the cachedData of that moment
Settled(outcome, data) ==
    [stage |-> "settled", outcome |-> outcome, promise |-> "fulfilled", result |-> data]

\* the variables of the statistics other than cachedData
statsRest == <<events, idx, totals, modelUsageTotals, modelStats, providerCounts, topModels,
               topProviders, spc>>

\* what fetchModelsData leaves alone
exceptFetch == <<renderVars, statsRest, activityVars, costVars>>

FetchInit ==
    /\ fetchAttempted = FALSE
    /\ fetchInFlight = "null"
    /\ flight = [stage |-> "none", outcome |-> "none", promise |-> "none", result |-> "none"]
    /\ requests = 0
    /\ callers = [c \in Callers |-> [state |-> "idle", via |-> "none", value |-> "none"]]

\* lines 473-475: after the attempt a call returns cachedData
CallCached(c) ==
    /\ Idle(c)
    /\ fetchAttempted
    /\ callers' = [callers EXCEPT ![c] = [state |-> "resolved", via |-> "cache",
                                          value |-> cachedData]]
    /\ UNCHANGED <<exceptFetch, cachedData, fetchAttempted, fetchInFlight, flight, requests>>

\* lines 476-478: a call during the request returns the request's promise
CallJoins(c) ==
    /\ Idle(c)
    /\ ~fetchAttempted
    /\ joinsInFlight(fetchInFlight)
    /\ callers' = Awaits(c, "join")
    /\ UNCHANGED <<exceptFetch, cachedData, fetchAttempted, fetchInFlight, flight, requests>>

\* lines 480-489 and 542: the first call issues the request and keeps its promise
CallFetches(c) ==
    /\ Idle(c)
    /\ ~fetchAttempted
    /\ ~joinsInFlight(fetchInFlight)
    /\ requests' = requests + 1
    /\ flight' = [stage |-> "requesting", outcome |-> "none", promise |-> "pending",
                  result |-> "none"]
    /\ fetchInFlight' = "promise"
    /\ callers' = Awaits(c, "fetch")
    /\ UNCHANGED <<exceptFetch, cachedData, fetchAttempted>>

\* lines 480-542 when fetch itself throws before any await: catch and finally
\* run inside the call, and the assignment of line 480 then stores the
\* promise that is already fulfilled
CallFetchThrows(c) ==
    /\ Idle(c)
    /\ ~fetchAttempted
    /\ ~joinsInFlight(fetchInFlight)
    /\ cachedData' = EMPTY_DATA
    /\ fetchAttempted' = TRUE
    /\ flight' = Settled("fetch threw", EMPTY_DATA)
    /\ fetchInFlight' = "promise"
    /\ callers' = Awaits(c, "fetch")
    /\ UNCHANGED <<exceptFetch, requests>>

\* lines 484-488: the response arrives in time, with response.ok
ResponseOk ==
    /\ flight.stage = "requesting"
    /\ flight' = [flight EXCEPT !.stage = "parsing"]
    /\ UNCHANGED <<exceptFetch, cachedData, fetchAttempted, fetchInFlight, requests, callers>>

\* lines 484-492 and 531-539: the request rejects, or the response is not ok
RequestFails ==
    /\ flight.stage = "requesting"
    /\ \E why \in RequestFailures \cup {"HTTP error"} : flight' = Settled(why, EMPTY_DATA)
    /\ cachedData' = EMPTY_DATA
    /\ fetchAttempted' = TRUE
    /\ fetchInFlight' = "null"
    /\ UNCHANGED <<exceptFetch, requests, callers>>

\* lines 494-530 and 534-538: the body is parsed and the cache is filled
ParseOk ==
    /\ flight.stage = "parsing"
    /\ \E data \in FetchedData :
        /\ cachedData' = data
        /\ flight' = Settled("ok", data)
    /\ fetchAttempted' = TRUE
    /\ fetchInFlight' = "null"
    /\ UNCHANGED <<exceptFetch, requests, callers>>

\* lines 494-498 and 531-539: response.json() rejects or takes too long
ParseFails ==
    /\ flight.stage = "parsing"
    /\ \E why \in ParseFailures : flight' = Settled(why, EMPTY_DATA)
    /\ cachedData' = EMPTY_DATA
    /\ fetchAttempted' = TRUE
    /\ fetchInFlight' = "null"
    /\ UNCHANGED <<exceptFetch, requests, callers>>

\* the promise a caller holds is settled with the result of the request
Deliver(c) ==
    /\ callers[c].state = "pending"
    /\ flight.stage = "settled"
    /\ callers' = [callers EXCEPT ![c].state = IF flight.promise = "fulfilled"
                                                 THEN "resolved" ELSE "rejected",
                                  ![c].value = flight.result]
    /\ UNCHANGED <<exceptFetch, cachedData, fetchAttempted, fetchInFlight, flight, requests>>

NextFetch ==
    \/ \E c \in Callers : CallCached(c)
    \/ \E c \in Callers : CallJoins(c)
    \/ \E c \in Callers : CallFetches(c)
    \/ \E c \in Callers : CallFetchThrows(c)
    \/ ResponseOk
    \/ RequestFails
    \/ ParseOk
    \/ ParseFails
    \/ \E c \in Callers : Deliver(c)

InitFetch == FetchInit /\ RenderIdle /\ StatsIdle /\ ActivityIdle /\ CostIdle

SpecFetch == InitFetch /\ [][NextFetch]_vars

\* C20: at most one request is ever issued; no promise rejects; every caller
\* that has its result has the same one, which is the cached data; a call
\* after the attempt is answered from the cache; a failed fetch leaves the
\* cache equal to the empty data set.
C20_SingleFlight ==
    /\ requests <= 1
    /\ flight.promise # "rejected"
    /\ \A c \in Callers : callers[c].state # "rejected"
    /\ \A c \in Callers :
          callers[c].state = "resolved" =>
              /\ fetchAttempted
              /\ callers[c].value = cachedData
              /\ \A d \in Callers : callers[d].state = "resolved" => callers[d].value = callers[c].value
    /\ fetchAttempted <=> flight.stage = "settled"
    /\ (flight.stage = "settled" /\ flight.outcome # "ok") => cachedData = EMPTY_DATA
    /\ flight.stage \in {"none", "requesting", "parsing"} => cachedData = EMPTY_DATA

\* one caller issued the request, one joined it in flight, one came after it
\* had failed, and all three have the empty data set
C20_Witness ==
    /\ requests = 1
    /\ flight.outcome = "HTTP error"
    /\ \E c, d, e \in Callers :
        /\ callers[c].via = "fetch" /\ callers[c].state = "resolved"
        /\ callers[d].via = "join" /\ callers[d].state = "resolved"
        /\ callers[e].via = "cache" /\ callers[e].state = "resolved"

====
